---- MODULE Spec2Model ----
(***************************************************************************)
(* Model of the two admin views of hope-haven:                             *)
(*   AnalyticsDashboard (src/src/components/admin/AnalyticsDashboard.tsx)  *)
(*   RSVPManagement     (src/unnamed/part_000)                             *)
(* One of the two components is mounted.  Every await of a Supabase read   *)
(* is a suspension point; an action is the code that runs from the         *)
(* settlement of one read up to the next await.                            *)
(***************************************************************************)
EXTENDS Integers, Sequences, FiniteSets, TLC

VARIABLES
    mounted,              \* which component is on the page
    \* ---- AnalyticsDashboard state ----
    blogStats, commentStats, eventStats, topPosts, categoryPerformance, loading,
    pc,                   \* await at which fetchAnalytics is suspended
    posts,                \* local `posts` of fetchAnalytics
    lookup,               \* the promises of posts.map(async ...), by index
    \* ---- RSVPManagement state ----
    isAdmin, rsvps, events, selectedEvent, rsvpLoading,
    pcR,                  \* "idle" before the first effect, then "mounted"
    eventsInflight, rsvpInflight,   \* fetchEvents / fetchRSVPs calls awaiting their read
    authChanges,          \* number of changes of isAdmin so far
    \* ---- environment ----
    logged,               \* console.error calls
    toasts,               \* toast() calls
    \* ---- history of the replies of the data store ----
    reply,                \* reply to each top-level read of fetchAnalytics
    publishedCount,       \* published posts in the store when the top-posts query ran
    approved,             \* approved comments in the store of the i-th fetched post
    outOfOrder,           \* some lookup settled before the lookup of an earlier post
    lastRsvp,             \* reply consumed by the latest fetchRSVPs settlement
    rsvpSettled,          \* number of fetchRSVPs settlements
    arg                   \* input of the aggregation under test (PureSpec only)

vars == <<mounted, blogStats, commentStats, eventStats, topPosts, categoryPerformance,
          loading, pc, posts, lookup, isAdmin, rsvps, events, selectedEvent,
          rsvpLoading, pcR, eventsInflight, rsvpInflight, authChanges, logged,
          toasts, reply, publishedCount, approved, outOfOrder, lastRsvp, rsvpSettled,
          arg>>

analyticsVars == <<blogStats, commentStats, eventStats, topPosts, categoryPerformance,
                   loading, pc, posts, lookup, reply, publishedCount, approved,
                   outOfOrder>>

rsvpVars == <<isAdmin, rsvps, events, selectedEvent, rsvpLoading, pcR,
              eventsInflight, rsvpInflight, authChanges, lastRsvp, rsvpSettled>>

(***************************************************************************)
(* Bounds                                                                  *)
(***************************************************************************)
MaxPublished == 6      \* published posts in the store
MaxComments == 1       \* approved comments of one post
MaxAuthChanges == 2    \* changes of isAdmin
MaxRsvps == 3          \* registrations returned by one read
MaxLen == 3            \* rows of an aggregation input
MaxRun == 23           \* posts of one category in a two-category input
MaxRegistered == 2     \* registered count of one event

Limit == 5             \* .limit(5) of the top-posts query

Min(a, b) == IF a < b THEN a ELSE b

(***************************************************************************)
(* Replies of the data store.  A read settles with rows, with an absent    *)
(* result ({data: null, error}) or by raising.                             *)
(***************************************************************************)
NoReply == [kind |-> "none", rows |-> <<>>]
Absent == [kind |-> "absent", rows |-> <<>>]
Raised == [kind |-> "raise", rows |-> <<>>]
Rows(rs) == [kind |-> "rows", rows |-> rs]
Pending == [kind |-> "pending", rows |-> <<>>]
Discarded == [kind |-> "discarded", rows |-> <<>>]

Reads == {"blogs", "comments", "events", "posts", "categories"}

BlogStatuses == {"published", "draft", "archived"}
CommentStatuses == {"approved", "pending", "spam"}
Categories == {"News", "Stories", "Health"}
EventIds == {"e1", "e2"}

StatusRow(s) == [status |-> s]
RegisteredRow(n) == [registered |-> n]
CategoryRow(c) == [category |-> c]

Titles == <<"t1", "t2", "t3", "t4", "t5", "t6", "t7", "t8">>

\* The published posts of the store, newest first.
Published(n) == [i \in 1..n |-> [id |-> i, title |-> Titles[i]]]

\* .eq('status','published').order('created_at', desc).limit(5)
TopPostsQuery(published) == SubSeq(published, 1, Min(Limit, Len(published)))

\* n rows of select('id')
IdRows(n) == [i \in 1..n |-> [id |-> i]]

\* The approved comments of the posts in the store: post i has between 0 and
\* MaxComments of them, the pattern shifted by k.
ApprovedInStore(k) == [i \in 1..Limit |-> (i + k) % (MaxComments + 1)]

SeqsUpTo(S, n) == UNION {[1..k -> S] : k \in 0..n}

(***************************************************************************)
(* Aggregations of fetchAnalytics                                          *)
(***************************************************************************)
ZeroBlogStats == [total |-> 0, published |-> 0, draft |-> 0]
ZeroCommentStats == [total |-> 0, approved |-> 0, pending |-> 0]
ZeroEventStats == [total |-> 0, totalRegistrations |-> 0]

HasStatus(rows, s) == SelectSeq(rows, LAMBDA b : b.status = s)

\* variant: every row that is not published is taken for a draft
BlogStatsOfElse(blogs) ==
    [total |-> Len(blogs),
     published |-> Len(HasStatus(blogs, "published")),
     draft |-> Len(blogs) - Len(HasStatus(blogs, "published"))]

BlogStatsOf(blogs) ==
    [total |-> Len(blogs),
     published |-> Len(HasStatus(blogs, "published")),
     draft |-> Len(HasStatus(blogs, "draft"))]

CommentStatsOf(comments) ==
    [total |-> Len(comments),
     approved |-> Len(HasStatus(comments, "approved")),
     pending |-> Len(HasStatus(comments, "pending"))]

RECURSIVE ReduceRegistered(_, _, _)
\* events.reduce((sum, e) => sum + e.registered, 0), from index i with accumulator sum
ReduceRegistered(evs, i, sum) ==
    IF i > Len(evs) THEN sum
    ELSE ReduceRegistered(evs, i + 1, sum + evs[i].registered)

\* variant: the reduce adds 1 per row instead of e.registered
EventStatsOfRows(evs) ==
    [total |-> Len(evs),
     totalRegistrations |-> Len(evs)]

EventStatsOf(evs) ==
    [total |-> Len(evs),
     totalRegistrations |-> ReduceRegistered(evs, 1, 0)]

\* comments?.length || 0
CommentCount(rep) == IF rep.kind = "rows" THEN Len(rep.rows) ELSE 0

\* the value Promise.all resolves with: one entry per post, by index
PostsWithComments(ps, lk) ==
    [i \in 1..Len(ps) |-> [title |-> ps[i].title, comments |-> CommentCount(lk[i])]]

(***************************************************************************)
(* Category performance.  categoryCounts is a JavaScript object; its       *)
(* entries come out in insertion order, so it is a sequence of             *)
(* [name, count] in order of first occurrence.                             *)
(***************************************************************************)
HasKey(acc, name) == \E k \in 1..Len(acc) : acc[k].name = name

\* acc[post.category] = (acc[post.category] || 0) + 1
Bump(acc, name) ==
    IF HasKey(acc, name)
    THEN LET k == CHOOSE j \in 1..Len(acc) : acc[j].name = name
         IN  [acc EXCEPT ![k].count = @ + 1]
    ELSE Append(acc, [name |-> name, count |-> 1])

RECURSIVE ReduceCategories(_, _, _, _)
\* allPosts.reduce((acc, post) => ..., {}) over the rows lo..hi, in index order,
\* starting from the accumulator acc.  The rows are visited from left to
\* right; the range is halved, and the accumulator of the left half is
\* evaluated (its length taken) before the right half starts, only to keep
\* the evaluation shallow.
ReduceCategories(allPosts, lo, hi, acc) ==
    IF lo > hi THEN acc
    ELSE IF lo = hi THEN Bump(acc, allPosts[lo].category)
    ELSE LET mid == (lo + hi) \div 2
             left == ReduceCategories(allPosts, lo, mid, acc)
         IN  IF Len(left) > 0
             THEN ReduceCategories(allPosts, mid + 1, hi, left)
             ELSE ReduceCategories(allPosts, mid + 1, hi, <<>>)

(***************************************************************************)
(* (count / total) * 100 is evaluated in IEEE-754 binary64, each operation *)
(* rounding to nearest, ties to even.  With 1 <= count <= total the        *)
(* significands do not fit TLC's integers, so a double is carried as its   *)
(* exact distance from the rational it approximates, plus the low bits of  *)
(* its significand, which decide the next rounding.                        *)
(***************************************************************************)
RECURSIVE Pow2(_)
Pow2(n) == IF n = 0 THEN 1 ELSE 2 * Pow2(n - 1)

RECURSIVE Pow2Mod(_, _)
\* 2^s modulo m, by repeated squaring
Pow2Mod(s, m) ==
    IF s = 0 THEN 1 % m
    ELSE LET h == Pow2Mod(s \div 2, m)
         IN  (((h * h) % m) * (IF s % 2 = 1 THEN 2 ELSE 1)) % m

RECURSIVE BinaryExponent(_, _, _)
\* least e >= from with count * 2^e >= total: count/total lies in [2^-e, 2^(1-e))
BinaryExponent(count, total, from) ==
    IF count * Pow2(from) >= total THEN from
    ELSE BinaryExponent(count, total, from + 1)

\* count / total.  The result is M * 2^-(52+exp) where
\*   M * total = count * 2^(52+exp) - rem   and   low = M mod 256
\* (52 fraction bits; the significand is tracked modulo 2^8).
DivDouble(count, total) ==
    LET e == BinaryExponent(count, total, 0)
        s == 52 + e
        x == (count * Pow2Mod(s, 256 * total)) % (256 * total)
        r0 == x % total                \* remainder of the truncated quotient
        m0 == x \div total             \* truncated quotient mod 256
        down == 2 * r0 < total \/ (2 * r0 = total /\ m0 % 2 = 0)
    IN  [exp |-> e,
         rem |-> IF down THEN r0 ELSE r0 - total,
         low |-> IF down THEN m0 ELSE (m0 + 1) % 256]

\* q * 100 for q = DivDouble(count, total).  The exact product P = 100 * M has
\* 59 or 60 bits; 6 or 7 of them are rounded away.  The result is
\*   100 * count / total - err / (total * 2^(52+exp)).
MulDouble100(q, count, total) ==
    LET d == 100 * count * Pow2(q.exp) - 128 * total   \* sign of P - 2^59 when not 0
        drop == IF d < 0 \/ (d = 0 /\ q.rem > 0) THEN 6 ELSE 7
        p == (100 * q.low) % 256                   \* P mod 256
        rho0 == p % Pow2(drop)
        half == Pow2(drop - 1)
        even == (p \div Pow2(drop)) % 2 = 0
        rho == IF rho0 < half \/ (rho0 = half /\ even) THEN rho0 ELSE rho0 - Pow2(drop)
    IN  [exp |-> q.exp, err |-> 100 * q.rem + rho * total]

\* Math.round(p) = floor(p + 1/2) for the double p = MulDouble100(...).
\* |err| / (total * 2^52) is far below 1 / (2 * total), so p + 1/2 and
\* (200 * count + total) / (2 * total) have the same floor unless the latter is
\* an integer and p lies below it.
MathRound(p, count, total) ==
    LET n == 200 * count + total
    IN  (n \div (2 * total)) - (IF n % (2 * total) = 0 /\ p.err > 0 THEN 1 ELSE 0)

\* variant: Math.round(count / total) * 100
PercentageRoundFirst(count, total) == IF 2 * count >= total THEN 100 ELSE 0

\* Math.round((count / total) * 100)
Percentage(count, total) ==
    MathRound(MulDouble100(DivDouble(count, total), count, total), count, total)

\* Object.entries(categoryCounts).map(([name, count]) => ({name, views, percentage}))
CategoryData(allPosts) ==
    LET categoryCounts == ReduceCategories(allPosts, 1, Len(allPosts), <<>>)
        total == Len(allPosts)
    IN  [k \in 1..Len(categoryCounts) |->
            [name |-> categoryCounts[k].name,
             views |-> categoryCounts[k].count,
             percentage |-> Percentage(categoryCounts[k].count, total)]]

(***************************************************************************)
(* Replies the data store may give to each read of fetchAnalytics          *)
(***************************************************************************)
Failures == {Absent, Raised}

SampleBlogRows ==
    {<<StatusRow("published"), StatusRow("draft"), StatusRow("archived"), StatusRow("published")>>}
SampleCommentRows ==
    {<<StatusRow("pending"), StatusRow("approved"), StatusRow("spam")>>}
SampleEventRows ==
    {<<RegisteredRow(2), RegisteredRow(0), RegisteredRow(1)>>}
SampleCategoryRows ==
    {<<>>, <<CategoryRow("News"), CategoryRow("Health"), CategoryRow("News")>>}

BlogReplies == Failures \cup {Rows(r) : r \in SampleBlogRows}
CommentReplies == Failures \cup {Rows(r) : r \in SampleCommentRows}
EventReplies == Failures \cup {Rows(r) : r \in SampleEventRows}
CategoryReplies == Failures \cup {Rows(r) : r \in SampleCategoryRows}

(***************************************************************************)
(* fetchAnalytics                                                          *)
(***************************************************************************)
\* variant: setLoading(false) at the end of the try block, no finally
CatchOnly ==
    /\ logged' = logged + 1
    /\ pc' = "done"
    /\ UNCHANGED loading

\* catch (error) { console.error(...) } finally { setLoading(false) }
CatchFinally ==
    /\ logged' = logged + 1
    /\ loading' = FALSE
    /\ pc' = "done"

\* useEffect(() => { fetchAnalytics() }, []): runs up to the first await
MountAnalytics ==
    /\ mounted = "analytics"
    /\ pc = "idle"
    /\ pc' = "blogs"
    /\ UNCHANGED <<mounted, blogStats, commentStats, eventStats, topPosts,
                   categoryPerformance, loading, posts, lookup, reply,
                   publishedCount, approved, outOfOrder, logged, toasts, arg>>
    /\ UNCHANGED rsvpVars

\* the blog_posts status read settles
BlogsSettle ==
    /\ mounted = "analytics"
    /\ pc = "blogs"
    /\ \E rep \in BlogReplies :
          /\ reply' = [reply EXCEPT !.blogs = rep]
          /\ IF rep.kind = "raise"
             THEN CatchFinally /\ UNCHANGED blogStats
             ELSE /\ blogStats' = IF rep.kind = "rows" THEN BlogStatsOf(rep.rows) ELSE blogStats
                  /\ pc' = "comments"
                  /\ UNCHANGED <<loading, logged>>
    /\ UNCHANGED <<mounted, commentStats, eventStats, topPosts, categoryPerformance,
                   posts, lookup, publishedCount, approved, outOfOrder, toasts, arg>>
    /\ UNCHANGED rsvpVars

\* the comments status read settles
CommentsSettle ==
    /\ mounted = "analytics"
    /\ pc = "comments"
    /\ \E rep \in CommentReplies :
          /\ reply' = [reply EXCEPT !.comments = rep]
          /\ IF rep.kind = "raise"
             THEN CatchFinally /\ UNCHANGED commentStats
             ELSE /\ commentStats' = IF rep.kind = "rows" THEN CommentStatsOf(rep.rows)
                                     ELSE commentStats
                  /\ pc' = "events"
                  /\ UNCHANGED <<loading, logged>>
    /\ UNCHANGED <<mounted, blogStats, eventStats, topPosts, categoryPerformance,
                   posts, lookup, publishedCount, approved, outOfOrder, toasts, arg>>
    /\ UNCHANGED rsvpVars

\* the events read settles
EventStatsSettle ==
    /\ mounted = "analytics"
    /\ pc = "events"
    /\ \E rep \in EventReplies :
          /\ reply' = [reply EXCEPT !.events = rep]
          /\ IF rep.kind = "raise"
             THEN CatchFinally /\ UNCHANGED eventStats
             ELSE /\ eventStats' = IF rep.kind = "rows" THEN EventStatsOf(rep.rows)
                                   ELSE eventStats
                  /\ pc' = "posts"
                  /\ UNCHANGED <<loading, logged>>
    /\ UNCHANGED <<mounted, blogStats, commentStats, topPosts, categoryPerformance,
                   posts, lookup, publishedCount, approved, outOfOrder, toasts, arg>>
    /\ UNCHANGED rsvpVars

\* the top-posts base query fails: absent result skips the block, a raise aborts
PostsFail ==
    /\ mounted = "analytics"
    /\ pc = "posts"
    /\ \E rep \in Failures :
          /\ reply' = [reply EXCEPT !.posts = rep]
          /\ IF rep.kind = "raise"
             THEN CatchFinally
             ELSE pc' = "categories" /\ UNCHANGED <<loading, logged>>
    /\ UNCHANGED <<mounted, blogStats, commentStats, eventStats, topPosts,
                   categoryPerformance, posts, lookup, publishedCount, approved, outOfOrder,
                   toasts, arg>>
    /\ UNCHANGED rsvpVars

\* the top-posts base query returns rows: posts.map issues one lookup per post;
\* Promise.all([]) resolves at once
PostsSettle ==
    /\ mounted = "analytics"
    /\ pc = "posts"
    /\ \E n \in 0..MaxPublished, k \in 0..MaxComments :
          LET rows == TopPostsQuery(Published(n))
          IN  /\ reply' = [reply EXCEPT !.posts = Rows(rows)]
              /\ publishedCount' = n
              /\ approved' = ApprovedInStore(k)
              /\ posts' = rows
              /\ lookup' = [i \in 1..Len(rows) |-> Pending]
              /\ IF Len(rows) = 0
                 THEN topPosts' = PostsWithComments(rows, lookup') /\ pc' = "categories"
                 ELSE pc' = "lookups" /\ UNCHANGED topPosts
    /\ UNCHANGED <<mounted, blogStats, commentStats, eventStats, categoryPerformance,
                   loading, outOfOrder, logged, toasts, arg>>
    /\ UNCHANGED rsvpVars

\* variant: the list is assembled as soon as one lookup has settled
AnySettled(lk) == \E i \in DOMAIN lk : lk[i].kind \in {"rows", "absent"}

AllSettled(lk) == \A i \in DOMAIN lk : lk[i].kind \in {"rows", "absent"}

\* the approved-comments lookup of the i-th post settles without raising; the
\* last one to settle fulfils Promise.all and setTopPosts runs
LookupSettle(i) ==
    /\ mounted = "analytics"
    /\ pc = "lookups"
    /\ i \in DOMAIN lookup
    /\ lookup[i] = Pending
    /\ \E ok \in BOOLEAN :
          lookup' = [lookup EXCEPT ![i] = IF ok THEN Rows(IdRows(approved[i])) ELSE Absent]
    /\ outOfOrder' = (outOfOrder \/ \E j \in 1..(i - 1) : lookup[j] = Pending)
    /\ IF AllSettled(lookup')
       THEN topPosts' = PostsWithComments(posts, lookup') /\ pc' = "categories"
       ELSE UNCHANGED <<topPosts, pc>>
    /\ UNCHANGED <<mounted, blogStats, commentStats, eventStats, categoryPerformance,
                   loading, posts, reply, publishedCount, approved, logged, toasts,
                   arg>>
    /\ UNCHANGED rsvpVars

\* the lookup of the i-th post raises: Promise.all rejects, the catch runs
LookupRaise(i) ==
    /\ mounted = "analytics"
    /\ pc = "lookups"
    /\ i \in DOMAIN lookup
    /\ lookup[i] = Pending
    /\ lookup' = [lookup EXCEPT ![i] = Raised]
    /\ CatchFinally
    /\ UNCHANGED <<mounted, blogStats, commentStats, eventStats, topPosts,
                   categoryPerformance, posts, reply, publishedCount, approved, outOfOrder,
                   toasts, arg>>
    /\ UNCHANGED rsvpVars

\* a lookup still in flight after Promise.all rejected settles; its value is dropped
LookupLate(i) ==
    /\ mounted = "analytics"
    /\ pc = "done"
    /\ i \in DOMAIN lookup
    /\ lookup[i] = Pending
    /\ lookup' = [lookup EXCEPT ![i] = Discarded]
    /\ UNCHANGED <<mounted, blogStats, commentStats, eventStats, topPosts,
                   categoryPerformance, loading, pc, posts, reply, publishedCount,
                   approved, outOfOrder, logged, toasts, arg>>
    /\ UNCHANGED rsvpVars

\* the category read settles; the finally block ends the loading state
CategoriesSettle ==
    /\ mounted = "analytics"
    /\ pc = "categories"
    /\ \E rep \in CategoryReplies :
          /\ reply' = [reply EXCEPT !.categories = rep]
          /\ IF rep.kind = "raise"
             THEN CatchFinally /\ UNCHANGED categoryPerformance
             ELSE /\ categoryPerformance' = IF rep.kind = "rows" THEN CategoryData(rep.rows)
                                            ELSE categoryPerformance
                  /\ loading' = FALSE
                  /\ pc' = "done"
                  /\ UNCHANGED logged
    /\ UNCHANGED <<mounted, blogStats, commentStats, eventStats, topPosts,
                   posts, lookup, publishedCount, approved, outOfOrder, toasts, arg>>
    /\ UNCHANGED rsvpVars

(***************************************************************************)
(* RSVPManagement                                                          *)
(***************************************************************************)
NoData == [kind |-> "nodata", rows |-> <<>>]   \* {data: null, error: null}

EventRow(e) == [id |-> e, title |-> e]
RsvpRows(es) == [i \in 1..Len(es) |-> [id |-> i, event_id |-> es[i]]]

SampleEventLists == {<<>>, <<EventRow("e2"), EventRow("e1")>>}
EventsReplies == Failures \cup {NoData} \cup {Rows(r) : r \in SampleEventLists}
RsvpReplies == Failures \cup {NoData} \cup {Rows(RsvpRows(es)) : es \in SeqsUpTo(EventIds, MaxRsvps)}

\* data || []
OrEmpty(rep) == IF rep.kind = "rows" THEN rep.rows ELSE <<>>

\* the body of useEffect(..., [isAdmin]) for the value admin of isAdmin:
\* fetchEvents() and fetchRSVPs() each run up to their await
RunEffect(admin) ==
    IF admin
    THEN /\ eventsInflight' = eventsInflight + 1
         /\ rsvpInflight' = rsvpInflight + 1
    ELSE UNCHANGED <<eventsInflight, rsvpInflight>>

\* first render: the effect runs with the initial isAdmin
MountRSVP ==
    /\ mounted = "rsvp"
    /\ pcR = "idle"
    /\ pcR' = "mounted"
    /\ RunEffect(isAdmin)
    /\ UNCHANGED <<mounted, isAdmin, rsvps, events, selectedEvent, rsvpLoading,
                   authChanges, lastRsvp, rsvpSettled, logged, toasts, arg>>
    /\ UNCHANGED analyticsVars

\* useAuth() delivers a new isAdmin; the effect depends on it and runs again
AuthChange ==
    /\ mounted = "rsvp"
    /\ pcR = "mounted"
    /\ authChanges < MaxAuthChanges
    /\ authChanges' = authChanges + 1
    /\ isAdmin' = ~isAdmin
    /\ RunEffect(isAdmin')
    /\ UNCHANGED <<mounted, rsvps, events, selectedEvent, rsvpLoading, pcR,
                   lastRsvp, rsvpSettled, logged, toasts, arg>>
    /\ UNCHANGED analyticsVars

\* the read of a fetchEvents call settles
EventsSettle ==
    /\ mounted = "rsvp"
    /\ eventsInflight > 0
    /\ eventsInflight' = eventsInflight - 1
    /\ \E rep \in EventsReplies :
          IF rep \in Failures
          THEN logged' = logged + 1 /\ UNCHANGED events
          ELSE events' = OrEmpty(rep) /\ UNCHANGED logged
    /\ UNCHANGED <<mounted, isAdmin, rsvps, selectedEvent, rsvpLoading, pcR,
                   rsvpInflight, authChanges, lastRsvp, rsvpSettled, toasts, arg>>
    /\ UNCHANGED analyticsVars

\* variant: the catch block only logs
RsvpCatchSilent ==
    /\ logged' = logged + 1
    /\ UNCHANGED <<toasts, rsvps>>

\* catch (error) { console.error(...); toast({...}) }
RsvpCatch ==
    /\ logged' = logged + 1
    /\ toasts' = toasts + 1
    /\ UNCHANGED rsvps

\* the read of a fetchRSVPs call settles
RsvpsSettle ==
    /\ mounted = "rsvp"
    /\ rsvpInflight > 0
    /\ rsvpInflight' = rsvpInflight - 1
    /\ rsvpSettled' = rsvpSettled + 1
    /\ \E rep \in RsvpReplies :
          /\ lastRsvp' = rep
          /\ IF rep \in Failures
             THEN RsvpCatch
             ELSE /\ rsvps' = OrEmpty(rep)
                  /\ UNCHANGED <<logged, toasts>>
    /\ rsvpLoading' = FALSE
    /\ UNCHANGED <<mounted, isAdmin, events, selectedEvent, pcR, eventsInflight,
                   authChanges, arg>>
    /\ UNCHANGED analyticsVars

\* variant: no special case for "all"
filteredRSVPsNoAll == SelectSeq(rsvps, LAMBDA rsvp : rsvp.event_id = selectedEvent)

\* const filteredRSVPs = selectedEvent === "all" ? rsvps : rsvps.filter(...)
filteredRSVPs ==
    IF selectedEvent = "all" THEN rsvps
    ELSE SelectSeq(rsvps, LAMBDA rsvp : rsvp.event_id = selectedEvent)

\* variant: the loading guard comes before the permission guard
RenderRSVPLoadingFirst ==
    IF rsvpLoading THEN [screen |-> "loading", rows |-> <<>>]
    ELSE IF ~isAdmin THEN [screen |-> "denied", rows |-> <<>>]
    ELSE [screen |-> "table", rows |-> filteredRSVPs]

\* what RSVPManagement returns
RenderRSVP ==
    IF ~isAdmin THEN [screen |-> "denied", rows |-> <<>>]
    ELSE IF rsvpLoading THEN [screen |-> "loading", rows |-> <<>>]
    ELSE [screen |-> "table", rows |-> filteredRSVPs]

\* the items of the Select
SelectItems == {"all"} \cup {events[i].id : i \in DOMAIN events}

\* <Select value={selectedEvent} onValueChange={setSelectedEvent}>
SelectEvent(v) ==
    /\ mounted = "rsvp"
    /\ RenderRSVP.screen = "table"
    /\ v \in SelectItems
    /\ v # selectedEvent
    /\ selectedEvent' = v
    /\ UNCHANGED <<mounted, isAdmin, rsvps, events, rsvpLoading, pcR, eventsInflight,
                   rsvpInflight, authChanges, lastRsvp, rsvpSettled, logged, toasts, arg>>
    /\ UNCHANGED analyticsVars

(***************************************************************************)
(* The aggregations applied to arbitrary row sets                          *)
(***************************************************************************)
NoArg == [section |-> "none", rows |-> <<>>]

Run(c, n) == [i \in 1..n |-> CategoryRow(c)]

BlogInputs == SeqsUpTo({StatusRow(s) : s \in BlogStatuses}, MaxLen)
CommentInputs == SeqsUpTo({StatusRow(s) : s \in CommentStatuses}, MaxLen)
EventInputs == SeqsUpTo({RegisteredRow(n) : n \in 0..MaxRegistered}, MaxLen)
CategoryInputs ==
    SeqsUpTo({CategoryRow(c) : c \in Categories}, MaxLen)
    \cup {Run(a, n) \o Run(b, m) : <<a, b>> \in {p \in Categories \X Categories : p[1] # p[2]},
                                   <<n, m>> \in (0..MaxRun) \X (0..MaxRun)}

PureInputs ==
    {[section |-> "blogs", rows |-> r] : r \in BlogInputs}
    \cup {[section |-> "comments", rows |-> r] : r \in CommentInputs}
    \cup {[section |-> "events", rows |-> r] : r \in EventInputs}
    \cup {[section |-> "categories", rows |-> r] : r \in CategoryInputs}

\* if (blogs) { setBlogStats({...}) }
ApplyBlogStats ==
    /\ mounted = "none" /\ pc = "idle" /\ arg.section = "blogs"
    /\ blogStats' = BlogStatsOf(arg.rows)
    /\ pc' = "done"
    /\ UNCHANGED <<mounted, commentStats, eventStats, topPosts, categoryPerformance,
                   loading, posts, lookup, reply, publishedCount, approved, outOfOrder,
                   logged, toasts, arg>>
    /\ UNCHANGED rsvpVars

\* if (comments) { setCommentStats({...}) }
ApplyCommentStats ==
    /\ mounted = "none" /\ pc = "idle" /\ arg.section = "comments"
    /\ commentStats' = CommentStatsOf(arg.rows)
    /\ pc' = "done"
    /\ UNCHANGED <<mounted, blogStats, eventStats, topPosts, categoryPerformance,
                   loading, posts, lookup, reply, publishedCount, approved, outOfOrder,
                   logged, toasts, arg>>
    /\ UNCHANGED rsvpVars

\* if (events) { setEventStats({...}) }
ApplyEventStats ==
    /\ mounted = "none" /\ pc = "idle" /\ arg.section = "events"
    /\ eventStats' = EventStatsOf(arg.rows)
    /\ pc' = "done"
    /\ UNCHANGED <<mounted, blogStats, commentStats, topPosts, categoryPerformance,
                   loading, posts, lookup, reply, publishedCount, approved, outOfOrder,
                   logged, toasts, arg>>
    /\ UNCHANGED rsvpVars

\* if (allPosts) { ... setCategoryPerformance(categoryData) }
ApplyCategoryPerformance ==
    /\ mounted = "none" /\ pc = "idle" /\ arg.section = "categories"
    /\ categoryPerformance' = CategoryData(arg.rows)
    /\ pc' = "done"
    /\ UNCHANGED <<mounted, blogStats, commentStats, eventStats, topPosts,
                   loading, posts, lookup, reply, publishedCount, approved, outOfOrder,
                   logged, toasts, arg>>
    /\ UNCHANGED rsvpVars

(***************************************************************************)
(* Specifications                                                          *)
(***************************************************************************)
\* the useState initial values of both components
InitState ==
    /\ blogStats = ZeroBlogStats
    /\ commentStats = ZeroCommentStats
    /\ eventStats = ZeroEventStats
    /\ topPosts = <<>>
    /\ categoryPerformance = <<>>
    /\ loading = TRUE
    /\ pc = "idle"
    /\ posts = <<>>
    /\ lookup = <<>>
    /\ rsvps = <<>>
    /\ events = <<>>
    /\ selectedEvent = "all"
    /\ rsvpLoading = TRUE
    /\ pcR = "idle"
    /\ eventsInflight = 0
    /\ rsvpInflight = 0
    /\ authChanges = 0
    /\ logged = 0
    /\ toasts = 0
    /\ reply = [r \in Reads |-> NoReply]
    /\ publishedCount = 0
    /\ approved = [i \in 1..Limit |-> 0]
    /\ outOfOrder = FALSE
    /\ lastRsvp = NoReply
    /\ rsvpSettled = 0

Init ==
    /\ InitState
    /\ mounted \in {"analytics", "rsvp"}
    /\ isAdmin \in (IF mounted = "rsvp" THEN BOOLEAN ELSE {TRUE})
    /\ arg = NoArg

AnalyticsStep ==
    \/ MountAnalytics
    \/ BlogsSettle
    \/ CommentsSettle
    \/ EventStatsSettle
    \/ PostsFail
    \/ PostsSettle
    \/ \E i \in 1..Limit : LookupSettle(i)
    \/ \E i \in 1..Limit : LookupRaise(i)
    \/ \E i \in 1..Limit : LookupLate(i)
    \/ CategoriesSettle

Next ==
    \/ MountAnalytics
    \/ BlogsSettle
    \/ CommentsSettle
    \/ EventStatsSettle
    \/ PostsFail
    \/ PostsSettle
    \/ \E i \in 1..Limit : LookupSettle(i)
    \/ \E i \in 1..Limit : LookupRaise(i)
    \/ \E i \in 1..Limit : LookupLate(i)
    \/ CategoriesSettle
    \/ MountRSVP
    \/ AuthChange
    \/ EventsSettle
    \/ RsvpsSettle
    \/ \E v \in {"all"} \cup EventIds : SelectEvent(v)

Spec == Init /\ [][Next]_vars

\* every issued read settles and every effect runs
FairSpec ==
    /\ Spec
    /\ WF_vars(AnalyticsStep)
    /\ WF_vars(MountRSVP)
    /\ WF_vars(EventsSettle)
    /\ WF_vars(RsvpsSettle)

InitPure ==
    /\ InitState
    /\ mounted = "none"
    /\ isAdmin = TRUE
    /\ arg \in PureInputs

NextPure ==
    \/ ApplyBlogStats
    \/ ApplyCommentStats
    \/ ApplyEventStats
    \/ ApplyCategoryPerformance

PureSpec == InitPure /\ [][NextPure]_vars

(***************************************************************************)
(* Properties                                                              *)
(***************************************************************************)
LookupRaised == \E i \in DOMAIN lookup : lookup[i] = Raised

Failed(r) == reply[r] \in Failures

\* C1: when loading has become false (and no per-post lookup raised), each of
\* the five top-level reads has had its outcome, every statistic whose read
\* returned rows holds the value derived from them and every statistic whose
\* read failed holds its zero default, whether the failure was an absent result
\* or a raised error.
C1_FailureDoesNotPreventOthers ==
    (mounted = "analytics" /\ ~loading /\ ~LookupRaised) =>
        /\ \A r \in Reads : reply[r].kind \in {"rows", "absent", "raise"}
        /\ blogStats = IF Failed("blogs") THEN ZeroBlogStats
                       ELSE BlogStatsOf(reply.blogs.rows)
        /\ commentStats = IF Failed("comments") THEN ZeroCommentStats
                          ELSE CommentStatsOf(reply.comments.rows)
        /\ eventStats = IF Failed("events") THEN ZeroEventStats
                        ELSE EventStatsOf(reply.events.rows)
        /\ topPosts = IF Failed("posts") THEN <<>>
                      ELSE PostsWithComments(reply.posts.rows, lookup)
        /\ categoryPerformance = IF Failed("categories") THEN <<>>
                                 ELSE CategoryData(reply.categories.rows)

\* the stored list has one entry per fetched post and every lookup has completed
CompleteList ==
    /\ Len(topPosts) = Min(5, publishedCount)
    /\ \A i \in 1..Len(topPosts) : lookup[i].kind \in {"rows", "absent"}
    /\ \A i \in 1..Len(topPosts) : topPosts[i].title = Published(publishedCount)[i].title

\* C2 as stated: topPosts is the initial empty list or the complete list whose
\* i-th entry carries the number of approved comments of the i-th post.
C2_CountIsApprovedComments ==
    \/ topPosts = <<>>
    \/ /\ CompleteList
       /\ \A i \in 1..Len(topPosts) : topPosts[i].comments = approved[i]

\* C2 (amended): topPosts is the initial empty list or the complete list, in
\* post-fetch order, built after every lookup has completed; the i-th entry
\* carries the number of rows the lookup of the i-th post returned, and 0 when
\* that lookup's result is absent.
C2_CompleteOrInitial ==
    \/ topPosts = <<>>
    \/ /\ CompleteList
       /\ \A i \in 1..Len(topPosts) :
             topPosts[i].comments = IF lookup[i] = Absent THEN 0 ELSE approved[i]

\* five of six published posts are listed, and their lookups completed out of order
C2_Witness ==
    /\ publishedCount = 6
    /\ Len(topPosts) = 5
    /\ outOfOrder
    /\ topPosts[1].comments # topPosts[2].comments

PureDone(section) == mounted = "none" /\ pc = "done" /\ arg.section = section

CategoriesOf(rows) == {rows[i].category : i \in DOMAIN rows}
CountOf(rows, c) == Cardinality({i \in DOMAIN rows : rows[i].category = c})

\* 100 * n / d rounded to the nearest integer, halves up
RoundHalfUp(n, d) == (200 * n + d) \div (2 * d)

\* C3: categoryPerformance has exactly one entry per distinct category, with
\* the number of posts of that category and 100 * count / total rounded to the
\* nearest integer, halves up; no posts give the empty sequence.
C3_CountAndRoundedPercentage ==
    PureDone("categories") =>
        LET rows == arg.rows
        IN  /\ Len(categoryPerformance) = Cardinality(CategoriesOf(rows))
            /\ \A c \in CategoriesOf(rows) :
                  \E k \in DOMAIN categoryPerformance :
                     /\ categoryPerformance[k].name = c
                     /\ categoryPerformance[k].views = CountOf(rows, c)
                     /\ categoryPerformance[k].percentage
                           = RoundHalfUp(CountOf(rows, c), Len(rows))
            /\ (rows = <<>> => categoryPerformance = <<>>)

Recognized(rows, C) == \A i \in DOMAIN rows : rows[i].status \in C
Matching(rows, s) == Cardinality({i \in DOMAIN rows : rows[i].status = s})

\* C4: for blog rows (published, draft) and comment rows (approved, pending),
\* each category count is the number of rows with exactly that status, the
\* counts sum to at most the total, and to the total exactly when every row has
\* a recognized status.
C4_PartitionCounts ==
    /\ PureDone("blogs") =>
          /\ blogStats.total = Len(arg.rows)
          /\ blogStats.published = Matching(arg.rows, "published")
          /\ blogStats.draft = Matching(arg.rows, "draft")
          /\ blogStats.published + blogStats.draft <= blogStats.total
          /\ (blogStats.published + blogStats.draft = blogStats.total
                <=> Recognized(arg.rows, {"published", "draft"}))
    /\ PureDone("comments") =>
          /\ commentStats.total = Len(arg.rows)
          /\ commentStats.approved = Matching(arg.rows, "approved")
          /\ commentStats.pending = Matching(arg.rows, "pending")
          /\ commentStats.approved + commentStats.pending <= commentStats.total
          /\ (commentStats.approved + commentStats.pending = commentStats.total
                <=> Recognized(arg.rows, {"approved", "pending"}))

\* blog rows with an unrecognized status: the counts sum to less than the total
C4_Witness ==
    /\ PureDone("blogs")
    /\ ~Recognized(arg.rows, {"published", "draft"})
    /\ blogStats.published = 1 /\ blogStats.draft = 1 /\ blogStats.total = 3

RECURSIVE SumPercentages(_, _)
SumPercentages(cp, k) == IF k = 0 THEN 0 ELSE cp[k].percentage + SumPercentages(cp, k - 1)

Distance(a, b) == IF a < b THEN b - a ELSE a - b

\* C5: for a non-empty set of published posts the percentages of all groups
\* sum to 100 give or take the number of groups.
C5_PercentageDrift ==
    (PureDone("categories") /\ arg.rows # <<>>) =>
        Distance(SumPercentages(categoryPerformance, Len(categoryPerformance)), 100)
            <= Len(categoryPerformance)

\* three groups whose percentages do not sum to 100
C5_Witness ==
    /\ PureDone("categories")
    /\ Len(categoryPerformance) = 3
    /\ SumPercentages(categoryPerformance, 3) = 99

\* the sum of the registered fields, as the number of pairs (row, unit)
UnitsOf(rows) == {<<i, k>> \in (DOMAIN rows) \X (1..MaxRegistered + 1) : k <= rows[i].registered}

\* C6: totalRegistrations is the arithmetic sum of registered over the fetched
\* events, total is the number of rows, and no rows give the sum 0.
C6_SumOfRegistered ==
    PureDone("events") =>
        /\ eventStats.total = Len(arg.rows)
        /\ eventStats.totalRegistrations = Cardinality(UnitsOf(arg.rows))
        /\ (arg.rows = <<>> => eventStats.totalRegistrations = 0)

\* three events whose registrations sum to more than their number
C6_Witness ==
    /\ PureDone("events")
    /\ eventStats.total = 3
    /\ eventStats.totalRegistrations = 5

\* C7 as stated: after a failed registrations read a notification has been
\* raised, the registration list is empty and loading has ended; a failed read
\* of the analytics view raises no notification, is logged, and leaves its
\* statistic at its zero value.
C7_EmptyListAndLogged ==
    /\ (mounted = "rsvp" /\ lastRsvp \in Failures) =>
          (toasts >= 1 /\ rsvps = <<>> /\ ~rsvpLoading)
    /\ mounted = "analytics" =>
          /\ toasts = 0
          /\ ((\E r \in Reads : Failed(r)) => logged >= 1)
          /\ (Failed("blogs") => blogStats = ZeroBlogStats)
          /\ (Failed("comments") => commentStats = ZeroCommentStats)
          /\ (Failed("events") => eventStats = ZeroEventStats)
          /\ (Failed("posts") => topPosts = <<>>)
          /\ (Failed("categories") => categoryPerformance = <<>>)

FailsNow(r) == reply'[r] # reply[r] /\ reply'[r] \in Failures

\* C7 (amended): a failed registrations read raises one notification, leaves
\* the registration list as it was before the read (empty unless an earlier
\* read succeeded) and ends the loading state; a failed read of the analytics
\* view raises no notification, is logged only when it is raised as an error
\* (an absent result is not logged), and leaves its statistic at its zero value.
C7_FailureHandling ==
    [][ /\ (rsvpSettled' # rsvpSettled /\ lastRsvp' \in Failures) =>
              (toasts' = toasts + 1 /\ rsvps' = rsvps /\ ~rsvpLoading')
        /\ mounted = "analytics" =>
              /\ toasts' = toasts
              /\ \A r \in Reads :
                    FailsNow(r) => logged' = logged + (IF reply'[r] = Raised THEN 1 ELSE 0)
              /\ (FailsNow("blogs") => blogStats' = ZeroBlogStats)
              /\ (FailsNow("comments") => commentStats' = ZeroCommentStats)
              /\ (FailsNow("events") => eventStats' = ZeroEventStats)
              /\ (FailsNow("posts") => topPosts' = <<>>)
              /\ (FailsNow("categories") => categoryPerformance' = <<>>)
      ]_vars

\* a registrations read failed after an earlier one had stored rows
C7_Witness ==
    /\ mounted = "rsvp"
    /\ lastRsvp \in Failures
    /\ toasts = 1
    /\ rsvps # <<>>
    /\ ~rsvpLoading

\* C8: while isAdmin is false the permission message is rendered and no
\* registration row, whatever loading and rsvps hold; a fetchEvents or
\* fetchRSVPs read is issued only by a step that leaves isAdmin true.
C8_AdminGate ==
    /\ [](~isAdmin => (RenderRSVP.screen = "denied" /\ RenderRSVP.rows = <<>>))
    /\ [][(rsvpInflight' > rsvpInflight \/ eventsInflight' > eventsInflight) => isAdmin']_vars

\* registrations are stored and loading has ended, but isAdmin is false
C8_Witness ==
    /\ mounted = "rsvp"
    /\ ~isAdmin
    /\ ~rsvpLoading
    /\ rsvps # <<>>
    /\ RenderRSVP.screen = "denied"

AnalyticsFinished ==
    /\ pc = "done"
    /\ \/ logged = 1
       \/ /\ \A r \in Reads : reply[r].kind \in {"rows", "absent"}
          /\ \A i \in DOMAIN lookup : lookup[i].kind \in {"rows", "absent"}

\* each loading flag changes only from true to false: in the analytics view
\* only in the step that finishes fetchAnalytics (all reads settled, or a
\* failure raised), in the registrations view only in a step that settles a
\* registrations read
LoadingOnlyEnds ==
    /\ (loading' # loading => (loading /\ ~loading' /\ AnalyticsFinished'))
    /\ (rsvpLoading' # rsvpLoading =>
          (rsvpLoading /\ ~rsvpLoading' /\ rsvpSettled' = rsvpSettled + 1))
    /\ (~loading => ~loading')
    /\ (~rsvpLoading => ~rsvpLoading')

\* C9 as stated: both loading flags start true, change only from true to false
\* and only when fetchAnalytics has finished or the registrations read has
\* settled, and in each view loading eventually becomes false.
C9_LoadingAlwaysEnds ==
    /\ loading = TRUE
    /\ rsvpLoading = TRUE
    /\ [][LoadingOnlyEnds]_vars
    /\ (mounted = "analytics" ~> ~loading)
    /\ (mounted = "rsvp" ~> ~rsvpLoading)

\* C9 (amended): both loading flags start true, change only from true to
\* false and only when fetchAnalytics has finished or a registrations read has
\* settled; loading eventually becomes false in the analytics view, and in the
\* registrations view once a registrations read has been issued, which
\* happens only when isAdmin is true.
C9_LoadingOnce ==
    /\ loading = TRUE
    /\ rsvpLoading = TRUE
    /\ [][LoadingOnlyEnds]_vars
    /\ (mounted = "analytics" ~> ~loading)
    /\ (rsvpInflight > 0 ~> ~rsvpLoading)

\* a registrations read was issued and failed, and loading has ended
C9_Witness ==
    /\ mounted = "rsvp"
    /\ rsvpSettled = 1
    /\ lastRsvp = Raised
    /\ ~rsvpLoading

\* out is the rows of in whose event_id is e, in the order of in
IsFilterOf(out, in, e) ==
    \E f \in [DOMAIN out -> DOMAIN in] :
        /\ \A k \in DOMAIN out : out[k] = in[f[k]]
        /\ \A k \in DOMAIN out : \A l \in DOMAIN out : k < l => f[k] < f[l]
        /\ {f[k] : k \in DOMAIN out} = {i \in DOMAIN in : in[i].event_id = e}

\* C10: the table shows the whole registration list when selectedEvent is
\* "all" and otherwise exactly the registrations of the selected event, in
\* stored order; a change of the selection leaves the stored list unchanged.
C10_ClientSideFilter ==
    /\ [](RenderRSVP.screen = "table" =>
            IF selectedEvent = "all" THEN RenderRSVP.rows = rsvps
            ELSE IsFilterOf(RenderRSVP.rows, rsvps, selectedEvent))
    /\ [][selectedEvent' # selectedEvent => rsvps' = rsvps]_vars

\* an event is selected and two of three registrations are shown
C10_Witness ==
    /\ RenderRSVP.screen = "table"
    /\ selectedEvent = "e1"
    /\ Len(rsvps) = 3
    /\ Len(RenderRSVP.rows) = 2
    /\ rsvps[2].event_id = "e2"

====
